---- MODULE Spec2Model ----
(***************************************************************************)
(* Model of the App component of src/index.tsx: the message list, the      *)
(* draft text, the staged image, the busy flag, the send handler with its  *)
(* chat-streaming and video-polling continuations, and the speech          *)
(* recognition sessions.                                                   *)
(*                                                                         *)
(* JavaScript strings are sequences of one-character strings, so that      *)
(* trim, toLowerCase, startsWith and substring are computed.  Every await  *)
(* of the async functions is a suspension point: the code between two      *)
(* awaits is one action.  An absent optional field of a Message is the     *)
(* value Undefined (isLoading and isError: absent is FALSE).               *)
(***************************************************************************)
EXTENDS Integers, Sequences, FiniteSets, TLC

\* ------------------------------------------------------------ bounds
MaxTurns    == 2    \* accepted submissions
MaxClock    == 1    \* largest value Date.now() returns
MaxChunks   == 2    \* chunks of one chat stream
MaxPolls    == 2    \* polls of one video job that report not-done
MaxSessions == 2    \* speech-recognition sessions created
MaxLoad     == 3    \* accepted submissions and sessions created, together

\* ------------------------------------------------------------ values
Undefined == <<"#undefined">>
Null      == "null"
InitId    == -1

Files        == {"f1"}
ObjectURL(f) == "blob:" \o f

\* drafts the user may type
Drafts ==
  { <<" ">>,
    <<"/", "V", "i", "d", "e", "o", " ">>,
    <<"/", "V", "i", "d", "e", "o", " ", " ", "c">> }

Transcripts == { <<"c">> }
\* the k-th chunk of a stream: a text that tells its position
Letters     == <<"a", "b", "c", "d">>
Chunks(k)   == { <<Letters[k]>> }

\* values a rejected promise or a throw may carry
EntityNotFound == "Requested entity was not found."
ErrorValues    == { [isError |-> TRUE, message |-> EntityNotFound] }
NonErrorValues == { [isError |-> FALSE, message |-> "null"] }
Thrown         == ErrorValues \cup NonErrorValues
NoThrow        == [isError |-> FALSE, message |-> "#none"]

\* operation objects of the video job service
NoUri      == "undefined"
Uris       == {NoUri, "", "https://v"}
NoOperation == [done |-> FALSE, error |-> "undefined", uri |-> NoUri]

\* ------------------------------------------------------------ strings
IsWhitespace(c) == c \in {" ", "\t"}

RECURSIVE TrimStart(_)
TrimStart(s) ==
  IF s # <<>> /\ IsWhitespace(Head(s)) THEN TrimStart(Tail(s)) ELSE s

RECURSIVE TrimEnd(_)
TrimEnd(s) ==
  IF s # <<>> /\ IsWhitespace(s[Len(s)])
  THEN TrimEnd(SubSeq(s, 1, Len(s) - 1)) ELSE s

Trim(s) == TrimEnd(TrimStart(s))

LowerChar(c) ==
  CASE c = "V" -> "v" [] c = "I" -> "i" [] c = "D" -> "d"
    [] c = "E" -> "e" [] c = "O" -> "o" [] c = "C" -> "c"
    [] c = "H" -> "h" [] OTHER -> c

ToLowerCase(s) == [i \in 1..Len(s) |-> LowerChar(s[i])]

StartsWith(s, p) == Len(s) >= Len(p) /\ SubSeq(s, 1, Len(p)) = p

Substring(s, n) == SubSeq(s, n + 1, Len(s))

VideoPrefix == <<"/", "v", "i", "d", "e", "o", " ">>

\* ------------------------------------------------------------ state
VARIABLES
  messages,       \* useState<Message[]>
  input,          \* useState('')
  imageFile,      \* useState<File | null>
  imagePreview,   \* useState<string | null>
  isLoading,      \* useState(false)
  chat,           \* useState<Chat | null>
  error,          \* useState<string | null>
  isRecording,    \* useState(false)
  recognitionRef, \* index of the session in recognitionRef.current, 0 = null
  sessions,       \* state of every SpeechRecognition object created
  now,            \* Date.now()
  pc,             \* the await at which the accepted handleSendMessage is suspended
  aiMessageId,    \* local of sendChatMessage / generateVideo
  file,           \* parameter file of sendChatMessage
  accumulatedText,\* local of sendChatMessage
  operation,      \* local of generateVideo
  turn,           \* history: the submission in progress and the calls it made
  sendCalls       \* history: parity of the number of handleSendMessage calls

vars == << messages, input, imageFile, imagePreview, isLoading, chat, error,
           isRecording, recognitionRef, sessions, now,
           pc, aiMessageId, file, accumulatedText, operation, turn, sendCalls >>

viewVars  == << input, imageFile, imagePreview >>
voiceVars == << isRecording, recognitionRef, sessions >>
envVars   == << chat >>
localVars == << aiMessageId, file, accumulatedText, operation >>

\* ------------------------------------------------------------ messages
Message(id, text, sender) ==
  [ id |-> id, text |-> text, sender |-> sender, imagePreview |-> "undefined",
    videoUrl |-> Undefined, isLoading |-> FALSE, streamingText |-> Undefined,
    isError |-> FALSE ]

Greeting == <<"Hello! I'm Aura">>

NoTurn == [ n |-> 0, userText |-> <<>>, calls |-> <<>>, chunks |-> <<>>,
            texts |-> <<>>, polls |-> 0, caught |-> NoThrow, events |-> <<>> ]

Init ==
  /\ messages = << Message(InitId, Greeting, "ai") >>
  /\ input = <<>>
  /\ imageFile = Null
  /\ imagePreview = Null
  /\ isLoading = FALSE
  /\ chat \in {Null, "chat"}
  /\ error = IF chat = Null THEN "Failed to initialize the AI model." ELSE Null
  /\ isRecording = FALSE
  /\ recognitionRef = 0
  /\ sessions = <<>>
  /\ now = 0
  /\ pc = "idle"
  /\ aiMessageId = InitId
  /\ file = Null
  /\ accumulatedText = <<>>
  /\ operation = NoOperation
  /\ turn = NoTurn
  /\ sendCalls = 0

\* { ...m, k: v, ... }
Spread(m, upd) ==
  [k \in DOMAIN m |-> IF k \in DOMAIN upd THEN upd[k] ELSE m[k]]

\* prev.map(m => m.id === id ? { ...m, ...upd } : m)
UpdateById(msgs, id, upd) ==
  [i \in DOMAIN msgs |->
     IF msgs[i].id = id THEN Spread(msgs[i], upd) ELSE msgs[i]]

SetText(msgs, id, t) == UpdateById(msgs, id, [text |-> t])

\* ------------------------------------------------------------ texts
PreparingText(prompt) == <<"Preparing to generate video for: ">> \o prompt
SelectKeyText   == <<"Please select an API key to generate videos.">>
GeneratingText  == <<"Generating your video...">>
ReadyText       == <<"Your video is ready!">>
ApiKeyErrorText == <<"API key error. Please try selecting your key again.">>
NoUrlMessage    == "Video generation failed to return a valid URL."
UnknownError    == "An unknown error occurred."

\* e instanceof Error ? e.message : "An unknown error occurred."
ChatErrorMessage(e) == IF e.isError THEN e.message ELSE UnknownError

ChatErrorText(e) == <<"Sorry, I ran into an error: ", ChatErrorMessage(e)>>

\* e instanceof Error ? e.message : String(e ?? "An unknown error occurred.")
VideoErrorMessage(e) ==
  IF e.isError THEN e.message
  ELSE IF e.message = "null" THEN UnknownError ELSE e.message

\* errorMessage.includes("Requested entity was not found")
IncludesEntityNotFound(m) == m \in {EntityNotFound}

UserFriendlyError(e) ==
  IF IncludesEntityNotFound(VideoErrorMessage(e))
  THEN ApiKeyErrorText
  ELSE <<"Error: ", VideoErrorMessage(e)>>

\* ------------------------------------------------------------ view
\* onChange of the text input, which is disabled while isLoading
ChangeInput ==
  /\ ~isLoading
  /\ \E d \in Drafts : input' = d
  /\ UNCHANGED << messages, imageFile, imagePreview, isLoading, error, now, pc,
                  turn, sendCalls >>
  /\ UNCHANGED << voiceVars, envVars, localVars >>

HandleImageChange_WhileBusy ==
  /\ \E f \in Files :
       /\ imageFile' = f
       /\ imagePreview' = ObjectURL(f)
  /\ UNCHANGED << messages, input, isLoading, error, now, pc, turn, sendCalls >>
  /\ UNCHANGED << voiceVars, envVars, localVars >>

\* the file dialog is opened by a button that is disabled while isLoading
HandleImageChange ==
  /\ ~isLoading
  /\ \E f \in Files :
       /\ imageFile' = f
       /\ imagePreview' = ObjectURL(f)
  /\ UNCHANGED << messages, input, isLoading, error, now, pc, turn, sendCalls >>
  /\ UNCHANGED << voiceVars, envVars, localVars >>

\* the remove button is rendered only while a preview is shown
RemoveImage ==
  /\ imagePreview # Null
  /\ imageFile' = Null
  /\ imagePreview' = Null
  /\ UNCHANGED << messages, input, isLoading, error, now, pc, turn, sendCalls >>
  /\ UNCHANGED << voiceVars, envVars, localVars >>

\* ------------------------------------------------------------ submit
HandleSendRejects_NoBusyTest == Trim(input) = <<>> /\ imageFile = Null

\* if (isLoading || (!input.trim() && !imageFile)) return;
HandleSendRejects == isLoading \/ (Trim(input) = <<>> /\ imageFile = Null)

IsVideoCommand_CaseSensitive(userText) == StartsWith(userText, VideoPrefix)

\* userText.toLowerCase().startsWith('/video ')
IsVideoCommand(userText) == StartsWith(ToLowerCase(userText), VideoPrefix)

\* userText.substring(7).trim()
VideoPrompt(userText) == Trim(Substring(userText, 7))

\* Date.now() never goes back: the values it may return at its next call
ClockReads(last) == last..MaxClock

UserMessage_NoPreview(t, userText) == Message(t, userText, "user")

\* { id: Date.now().toString(), text: userText, sender: 'user', imagePreview }
UserMessage(t, userText) ==
  [Message(t, userText, "user") EXCEPT !.imagePreview = imagePreview]

PendingChatMessage(id) ==
  [Message(id, <<>>, "ai") EXCEPT !.streamingText = <<>>, !.isLoading = TRUE]

PendingVideoMessage(id, prompt) ==
  [Message(id, PreparingText(prompt), "ai") EXCEPT !.isLoading = TRUE]

VideoCatch_NoErrorFlag(msgs, id, e) ==
  UpdateById(msgs, id,
    [text |-> UserFriendlyError(e), isLoading |-> FALSE])

\* the catch block of generateVideo
VideoCatch(msgs, id, e) ==
  UpdateById(msgs, id,
    [text |-> UserFriendlyError(e), isLoading |-> FALSE, isError |-> TRUE])

VideoSubmit_NoStatus(msgs, id, trn) ==
  \/ \E e \in ErrorValues :
       /\ messages' = VideoCatch(msgs, id, e)
       /\ turn' = [trn EXCEPT !.caught = e,
                              !.texts = Append(@, UserFriendlyError(e))]
       /\ pc' = "h_await"
  \/ /\ messages' = msgs
     /\ turn' = [trn EXCEPT !.events = Append(@, "generateVideos")]
     /\ pc' = "v_submit"

\* new GoogleGenAI(...), the "generating" status and the call of
\* generateVideos; the constructor throws when it finds no API key
VideoSubmit(msgs, id, trn) ==
  \/ \E e \in ErrorValues :
       /\ messages' = VideoCatch(msgs, id, e)
       /\ turn' = [trn EXCEPT !.caught = e,
                              !.texts = Append(@, UserFriendlyError(e))]
       /\ pc' = "h_await"
  \/ /\ messages' = SetText(msgs, id, GeneratingText)
     /\ turn' = [trn EXCEPT !.texts = Append(@, GeneratingText),
                            !.events = Append(@, "generateVideos")]
     /\ pc' = "v_submit"

RejectSend ==
  /\ HandleSendRejects
  /\ sendCalls' = 1 - sendCalls
  /\ UNCHANGED << messages, isLoading, error, now, pc, turn >>
  /\ UNCHANGED << viewVars, voiceVars, envVars, localVars >>

NewTurn(userText, call) ==
  [NoTurn EXCEPT !.n = turn.n + 1, !.userText = userText, !.calls = <<call>>]

\* sendChatMessage without a chat session: setError and return
SendChatNoSession ==
  /\ ~HandleSendRejects
  /\ turn.n < MaxTurns
  /\ turn.n + Len(sessions) < MaxLoad
  /\ ~IsVideoCommand(Trim(input))
  /\ chat = Null
  /\ sendCalls' = 1 - sendCalls
  /\ isLoading' = TRUE
  /\ error' = "Chat session is not initialized."
  /\ \E t \in ClockReads(now) :
       /\ now' = t
       /\ messages' = Append(messages, UserMessage(t, Trim(input)))
  /\ input' = <<>>
  /\ imageFile' = Null
  /\ imagePreview' = Null
  /\ turn' = NewTurn(Trim(input), <<"chat", Trim(input), imageFile>>)
  /\ pc' = "h_await"
  /\ UNCHANGED << voiceVars, envVars, localVars >>

\* sendChatMessage up to its first await
SendChatStart ==
  /\ ~HandleSendRejects
  /\ turn.n < MaxTurns
  /\ turn.n + Len(sessions) < MaxLoad
  /\ ~IsVideoCommand(Trim(input))
  /\ chat # Null
  /\ sendCalls' = 1 - sendCalls
  /\ isLoading' = TRUE
  /\ error' = Null
  /\ \E u \in ClockReads(now) : \E t \in ClockReads(u) :
       /\ now' = t
       /\ aiMessageId' = t + 1
       /\ messages' = Append(Append(messages, UserMessage(u, Trim(input))),
                             PendingChatMessage(t + 1))
  /\ input' = <<>>
  /\ imageFile' = Null
  /\ imagePreview' = Null
  /\ file' = imageFile
  /\ accumulatedText' = <<>>
  /\ turn' = NewTurn(Trim(input), <<"chat", Trim(input), imageFile>>)
  /\ pc' = IF imageFile # Null THEN "c_readFile" ELSE "c_open"
  /\ UNCHANGED << operation, voiceVars, envVars >>

\* generateVideo up to its first await: hasSelectedApiKey() when
\* window.aistudio is there, generateVideos() when it is not
GenerateVideoStart ==
  /\ ~HandleSendRejects
  /\ turn.n < MaxTurns
  /\ turn.n + Len(sessions) < MaxLoad
  /\ IsVideoCommand(Trim(input))
  /\ sendCalls' = 1 - sendCalls
  /\ isLoading' = TRUE
  /\ error' = Null
  /\ input' = <<>>
  /\ imageFile' = Null
  /\ imagePreview' = Null
  /\ operation' = NoOperation
  /\ \E u \in ClockReads(now) : \E t \in ClockReads(u) :
       LET prompt == VideoPrompt(Trim(input))
           msgs   == Append(Append(messages, UserMessage(u, Trim(input))),
                            PendingVideoMessage(t + 1, prompt))
           trn    == [NewTurn(Trim(input), <<"video", prompt, Null>>)
                        EXCEPT !.texts = <<PreparingText(prompt)>>]
       IN /\ now' = t
          /\ aiMessageId' = t + 1
          /\ \/ /\ messages' = msgs
                /\ turn' = trn
                /\ pc' = "v_hasKey"
             \/ VideoSubmit(msgs, t + 1, trn)
  /\ UNCHANGED << file, accumulatedText, voiceVars, envVars >>

HandleSendMessage ==
  RejectSend \/ SendChatNoSession \/ SendChatStart \/ GenerateVideoStart

\* setIsLoading(false) after the awaited protocol has returned
FinishSend ==
  /\ pc = "h_await"
  /\ isLoading' = FALSE
  /\ pc' = "idle"
  /\ aiMessageId' = InitId
  /\ file' = Null
  /\ accumulatedText' = <<>>
  /\ operation' = NoOperation
  /\ turn' = [NoTurn EXCEPT !.n = turn.n]
  /\ UNCHANGED << messages, error, now, sendCalls >>
  /\ UNCHANGED << viewVars, voiceVars, envVars >>

\* ------------------------------------------------------------ chat
ChatCatch_KeepsLoading(msgs, id, e) ==
  UpdateById(msgs, id,
    [text |-> ChatErrorText(e), isError |-> TRUE])

\* the catch block of sendChatMessage
ChatCatch(msgs, id, e) ==
  UpdateById(msgs, id,
    [text |-> ChatErrorText(e), isError |-> TRUE, isLoading |-> FALSE])

Accumulate_Delta(acc, chunk) == chunk

\* accumulatedText += chunk.text
Accumulate(acc, chunk) == acc \o chunk

\* the update made for every chunk of the stream
ChatChunk(msgs, id, acc) ==
  UpdateById(msgs, id,
    [streamingText |-> acc])

ChatFinal_KeepsLoading(msgs, id, acc) ==
  UpdateById(msgs, id,
    [text |-> acc, streamingText |-> Undefined])

ChatFinal_KeepsStreaming(msgs, id, acc) ==
  UpdateById(msgs, id,
    [text |-> acc, isLoading |-> FALSE])

\* the update made when the stream is exhausted
ChatFinal(msgs, id, acc) ==
  UpdateById(msgs, id,
    [text |-> acc, streamingText |-> Undefined, isLoading |-> FALSE])

ChatThrows(at) ==
  /\ pc = at
  /\ \E e \in Thrown :
       /\ messages' = ChatCatch(messages, aiMessageId, e)
       /\ turn' = [turn EXCEPT !.caught = e]
  /\ pc' = "h_await"
  /\ UNCHANGED << isLoading, error, now, sendCalls >>
  /\ UNCHANGED << viewVars, voiceVars, envVars, localVars >>

\* fileToGenerativePart: onloadend with the data URL in reader.result
FileReadDone ==
  /\ pc = "c_readFile"
  /\ pc' = "c_open"
  /\ UNCHANGED << messages, isLoading, error, now, turn, sendCalls >>
  /\ UNCHANGED << viewVars, voiceVars, envVars, localVars >>

\* fileToGenerativePart: onloadend after a failed read, reader.result is
\* null, the callback throws before resolve and the promise stays pending
FileReadFails ==
  /\ pc = "c_readFile"
  /\ pc' = "c_readFileHung"
  /\ UNCHANGED << messages, isLoading, error, now, turn, sendCalls >>
  /\ UNCHANGED << viewVars, voiceVars, envVars, localVars >>

\* chat.sendMessageStream resolves
StreamOpens ==
  /\ pc = "c_open"
  /\ accumulatedText' = <<>>
  /\ pc' = "c_stream"
  /\ UNCHANGED << messages, isLoading, error, now, turn, sendCalls >>
  /\ UNCHANGED << viewVars, voiceVars, envVars, aiMessageId, file, operation >>

StreamOpenThrows == ChatThrows("c_open")

\* one iteration of for await (const chunk of result)
ChunkArrives ==
  /\ pc = "c_stream"
  /\ Len(turn.chunks) < MaxChunks
  /\ \E c \in Chunks(Len(turn.chunks) + 1) :
       /\ accumulatedText' = Accumulate(accumulatedText, c)
       /\ messages' = ChatChunk(messages, aiMessageId,
                                Accumulate(accumulatedText, c))
       /\ turn' = [turn EXCEPT !.chunks = Append(@, c)]
  /\ UNCHANGED << isLoading, error, now, pc, sendCalls >>
  /\ UNCHANGED << viewVars, voiceVars, envVars, aiMessageId, file, operation >>

StreamEnds ==
  /\ pc = "c_stream"
  /\ messages' = ChatFinal(messages, aiMessageId, accumulatedText)
  /\ pc' = "h_await"
  /\ UNCHANGED << isLoading, error, now, turn, sendCalls >>
  /\ UNCHANGED << viewVars, voiceVars, envVars, localVars >>

StreamThrows == ChatThrows("c_stream")

\* ------------------------------------------------------------ video
VideoThrows(at) ==
  /\ pc = at
  /\ \E e \in Thrown :
       /\ messages' = VideoCatch(messages, aiMessageId, e)
       /\ turn' = [turn EXCEPT !.caught = e,
                               !.texts = Append(@, UserFriendlyError(e))]
  /\ pc' = "h_await"
  /\ UNCHANGED << isLoading, error, now, sendCalls >>
  /\ UNCHANGED << viewVars, voiceVars, envVars, localVars >>

\* aistudio.hasSelectedApiKey() resolves
HasKeyReturns ==
  /\ pc = "v_hasKey"
  /\ \/ VideoSubmit(messages, aiMessageId, turn)
     \/ /\ messages' = SetText(messages, aiMessageId, SelectKeyText)
        /\ turn' = [turn EXCEPT !.texts = Append(@, SelectKeyText)]
        /\ pc' = "v_openKey"
  /\ UNCHANGED << isLoading, error, now, sendCalls >>
  /\ UNCHANGED << viewVars, voiceVars, envVars, localVars >>

HasKeyThrows == VideoThrows("v_hasKey")

\* aistudio.openSelectKey() resolves
OpenKeyReturns ==
  /\ pc = "v_openKey"
  /\ VideoSubmit(messages, aiMessageId, turn)
  /\ UNCHANGED << isLoading, error, now, sendCalls >>
  /\ UNCHANGED << viewVars, voiceVars, envVars, localVars >>

OpenKeyThrows == VideoThrows("v_openKey")

\* operation.response?.generatedVideos?.[0]?.video?.uri is truthy
HasDownloadLink(op) == op.uri \notin {NoUri, ""}

VideoUrl(op) == <<op.uri, "&key=">>

\* the update made when the job has produced a video
VideoReady(msgs, id, op) ==
  UpdateById(msgs, id,
    [text |-> ReadyText, videoUrl |-> VideoUrl(op), isLoading |-> FALSE])

CompletionError_IgnoresError(op) ==
  IF ~HasDownloadLink(op)
  THEN [isError |-> TRUE, message |-> NoUrlMessage]
  ELSE NoThrow

\* the value thrown after the polling loop, NoThrow if none
CompletionError(op) ==
  IF op.error # "undefined" THEN [isError |-> TRUE, message |-> op.error]
  ELSE IF ~HasDownloadLink(op)
       THEN [isError |-> TRUE, message |-> NoUrlMessage]
       ELSE NoThrow

StillRunning_UntilLink(op) == ~op.done \/ ~HasDownloadLink(op)

\* while (!operation.done)
StillRunning(op) == ~op.done

\* the loop test and the code after the loop, for a freshly fetched operation
AfterOperation(op) ==
  /\ operation' = op
  /\ IF StillRunning(op)
     THEN /\ pc' = "v_sleep"
          /\ UNCHANGED messages
          /\ turn' = [turn EXCEPT !.events = Append(@, "operation")]
     ELSE /\ pc' = "h_await"
          /\ IF CompletionError(op) # NoThrow
             THEN /\ messages' = VideoCatch(messages, aiMessageId,
                                            CompletionError(op))
                  /\ turn' = [turn EXCEPT
                       !.caught = CompletionError(op),
                       !.texts = Append(@, UserFriendlyError(CompletionError(op))),
                       !.events = Append(@, "done")]
             ELSE /\ messages' = VideoReady(messages, aiMessageId, op)
                  /\ turn' = [turn EXCEPT !.texts = Append(@, ReadyText),
                                          !.events = Append(@, "done")]

\* operations the job service may report; not-done only MaxPolls times
DoneOperations == [done : {TRUE}, error : {"undefined", "boom"}, uri : Uris]

Reported == IF turn.polls < MaxPolls
            THEN DoneOperations \cup {NoOperation} ELSE DoneOperations

\* ai.models.generateVideos resolves
GenerateVideosReturns ==
  /\ pc = "v_submit"
  /\ \E op \in Reported : AfterOperation(op)
  /\ UNCHANGED << isLoading, error, now, sendCalls >>
  /\ UNCHANGED << viewVars, voiceVars, envVars, aiMessageId, file,
                  accumulatedText >>

GenerateVideosThrows == VideoThrows("v_submit")

\* the 10 second timer fires and getVideosOperation is called
PollTimerFires ==
  /\ pc = "v_sleep"
  /\ pc' = "v_poll"
  /\ turn' = [turn EXCEPT !.polls = @ + 1,
                          !.events = @ \o <<"wait", "getVideosOperation">>]
  /\ UNCHANGED << messages, isLoading, error, now, sendCalls >>
  /\ UNCHANGED << viewVars, voiceVars, envVars, localVars >>

\* ai.operations.getVideosOperation resolves
PollReturns ==
  /\ pc = "v_poll"
  /\ \E op \in Reported : AfterOperation(op)
  /\ UNCHANGED << isLoading, error, now, sendCalls >>
  /\ UNCHANGED << viewVars, voiceVars, envVars, aiMessageId, file,
                  accumulatedText >>

PollThrows == VideoThrows("v_poll")

\* ------------------------------------------------------------ voice
\* the microphone button is disabled while isLoading
\* recognitionRef.current?.stop(): the session ends by its own onend
ToggleStop ==
  /\ ~isLoading
  /\ isRecording
  /\ UNCHANGED vars

\* no SpeechRecognition in this browser: alert(...) and return
ToggleUnsupported ==
  /\ ~isLoading
  /\ ~isRecording
  /\ UNCHANGED vars

\* new SpeechRecognition(), the four callbacks, recognition.start()
ToggleStart ==
  /\ ~isLoading
  /\ ~isRecording
  /\ Len(sessions) < MaxSessions
  /\ turn.n + Len(sessions) < MaxLoad
  /\ sessions' = Append(sessions, "starting")
  /\ recognitionRef' = Len(sessions) + 1
  /\ UNCHANGED << messages, isLoading, error, now, pc, turn, sendCalls,
                  isRecording >>
  /\ UNCHANGED << viewVars, envVars, localVars >>

HandleToggleRecording == ToggleStop \/ ToggleUnsupported \/ ToggleStart

SessionEvent(s, from, to, rec) ==
  /\ s \in DOMAIN sessions
  /\ sessions[s] \in from
  /\ sessions' = [sessions EXCEPT ![s] = to]
  /\ isRecording' = rec
  /\ UNCHANGED << messages, isLoading, error, now, pc, turn, sendCalls,
                  recognitionRef >>
  /\ UNCHANGED << imageFile, imagePreview, envVars, localVars >>

\* recognition.onstart
OnStart ==
  \E s \in DOMAIN sessions :
    SessionEvent(s, {"starting"}, "active", TRUE) /\ UNCHANGED input

\* recognition.onend
OnEnd ==
  \E s \in DOMAIN sessions :
    /\ SessionEvent(s, {"active", "closing", "resulted"}, "ended", FALSE)
    /\ UNCHANGED input

\* recognition.onerror
OnError ==
  \E s \in DOMAIN sessions :
    /\ SessionEvent(s, {"starting", "active"}, "closing", FALSE)
    /\ UNCHANGED input

JoinTranscript_NoSpace(prev, transcript) == prev \o transcript

\* prev ? `${prev} ${transcript}` : transcript
JoinTranscript(prev, transcript) ==
  IF prev # <<>> THEN prev \o <<" ">> \o transcript ELSE transcript

\* recognition.onresult: the one final result of a session that is not
\* continuous
OnResult ==
  \E s \in DOMAIN sessions, transcript \in Transcripts :
    /\ SessionEvent(s, {"active"}, "resulted", isRecording)
    /\ input' = JoinTranscript(input, transcript)

\* ------------------------------------------------------------ system
ChatStep ==
  \/ FileReadDone \/ FileReadFails \/ StreamOpens \/ StreamOpenThrows
  \/ ChunkArrives \/ StreamEnds \/ StreamThrows

VideoStep ==
  \/ HasKeyReturns \/ HasKeyThrows \/ OpenKeyReturns \/ OpenKeyThrows
  \/ GenerateVideosReturns \/ GenerateVideosThrows
  \/ PollTimerFires \/ PollReturns \/ PollThrows

Next ==
  \/ ChangeInput \/ HandleImageChange \/ RemoveImage
  \/ RejectSend \/ SendChatNoSession \/ SendChatStart \/ GenerateVideoStart
  \/ FinishSend
  \/ FileReadDone \/ FileReadFails \/ StreamOpens \/ StreamOpenThrows
  \/ ChunkArrives \/ StreamEnds \/ StreamThrows
  \/ HasKeyReturns \/ HasKeyThrows \/ OpenKeyReturns \/ OpenKeyThrows
  \/ GenerateVideosReturns \/ GenerateVideosThrows
  \/ PollTimerFires \/ PollReturns \/ PollThrows
  \/ ToggleStop \/ ToggleUnsupported \/ ToggleStart
  \/ OnStart \/ OnEnd \/ OnError \/ OnResult

Spec == Init /\ [][Next]_vars

\* every promise the handler awaits is settled and every continuation runs
FairSpec ==
  Spec /\ WF_vars(ChatStep) /\ WF_vars(VideoStep) /\ WF_vars(FinishSend)

\* the speech sessions around the first submission
VoiceNext ==
  \/ ChangeInput \/ HandleImageChange \/ RemoveImage
  \/ RejectSend
  \/ (turn.n = 0 /\ SendChatNoSession)
  \/ (turn.n = 0 /\ SendChatStart)
  \/ (turn.n = 0 /\ GenerateVideoStart)
  \/ FinishSend
  \/ FileReadDone \/ FileReadFails \/ StreamOpens \/ StreamOpenThrows
  \/ ChunkArrives \/ StreamEnds \/ StreamThrows
  \/ HasKeyReturns \/ HasKeyThrows \/ OpenKeyReturns \/ OpenKeyThrows
  \/ GenerateVideosReturns \/ GenerateVideosThrows
  \/ PollTimerFires \/ PollReturns \/ PollThrows
  \/ ToggleStop \/ ToggleUnsupported \/ ToggleStart
  \/ OnStart \/ OnEnd \/ OnError \/ OnResult

\* the browser fires the end event of every session that is over: a session
\* that is not continuous is over after its result
VoiceSpec == Init /\ [][VoiceNext]_vars /\ WF_vars(OnEnd)

\* ------------------------------------------------------------ properties
Pending == {i \in DOMAIN messages : messages[i].isLoading}

\* the message appended last: the assistant message of the turn in progress
LastMessage == messages[Len(messages)]

AllWhitespace(s) == \A i \in DOMAIN s : IsWhitespace(s[i])

RECURSIVE Concat(_)
Concat(ss) == IF ss = <<>> THEN <<>> ELSE Head(ss) \o Concat(Tail(ss))

InTurn(protocol) ==
  pc # "idle" /\ turn.calls # <<>> /\ turn.calls[1][1] = protocol

\* C1: a call of handleSendMessage made while isLoading is true, or while the
\* draft is empty after trimming and no image is staged, is a no-op: the
\* messages, the draft, the staged image and its preview, the busy flag are
\* unchanged and no remote call is started (the handler is suspended where it
\* was and the turn has made no new call).
C1_RejectedSubmitIsNoOp ==
  [][ ( /\ sendCalls' # sendCalls
        /\ (isLoading \/ (AllWhitespace(input) /\ imageFile = Null)) )
      => UNCHANGED << messages, input, imageFile, imagePreview, isLoading,
                      pc, turn >> ]_vars

\* a second call arrived while the first accepted submission was in flight
C1_Witness ==
  /\ isLoading
  /\ turn.n = 1
  /\ pc = "c_stream"
  /\ sendCalls = 0

\* C2: at most one message of the conversation has isLoading = true.
C2_AtMostOnePending == Cardinality(Pending) <= 1

\* the second accepted submission is pending after the first one has ended
C2_Witness ==
  /\ turn.n = 2
  /\ Cardinality(Pending) = 1
  /\ Len(messages) = 5

\* C3: after an accepted submission the busy flag is eventually cleared.
C3_BusyEventuallyCleared == isLoading ~> ~isLoading

IsWhitespaceFree(p) ==
  p # <<>> => ~IsWhitespace(p[1]) /\ ~IsWhitespace(p[Len(p)])

\* p is s without its leading and trailing whitespace
IsTrimOf(p, s) ==
  \E a, b \in 0..Len(s) :
    /\ a + b <= Len(s)
    /\ p = SubSeq(s, a + 1, Len(s) - b)
    /\ \A i \in 1..a : IsWhitespace(s[i])
    /\ \A i \in (Len(s) - b + 1)..Len(s) : IsWhitespace(s[i])
    /\ IsWhitespaceFree(p)

\* t begins with "/video " in any mix of upper and lower case
MatchesVideo(t) ==
  /\ Len(t) >= Len(VideoPrefix)
  /\ \A i \in DOMAIN VideoPrefix : LowerChar(t[i]) = VideoPrefix[i]

VideoPcs == {"v_hasKey", "v_openKey", "v_submit", "v_sleep", "v_poll"}
ChatPcs  == {"c_readFile", "c_readFileHung", "c_open", "c_stream"}

\* C4: an accepted submission calls exactly one protocol: generateVideo with
\* the text after "/video ", trimmed, when the trimmed text begins with
\* "/video " in any case, and sendChatMessage otherwise.
C4_DispatchedToOneProtocol ==
  pc # "idle" =>
    /\ Len(turn.calls) = 1
    /\ IF MatchesVideo(turn.userText)
       THEN /\ turn.calls[1][1] = "video"
            /\ IsTrimOf(turn.calls[1][2],
                        SubSeq(turn.userText, 8, Len(turn.userText)))
            /\ pc \notin ChatPcs
       ELSE /\ turn.calls[1][1] = "chat"
            /\ turn.calls[1][2] = turn.userText
            /\ pc \notin VideoPcs

\* "/Video  c" is running as a video job with the prompt "c"
C4_Witness ==
  /\ pc = "v_submit"
  /\ turn.userText = <<"/", "V", "i", "d", "e", "o", " ", " ", "c">>
  /\ turn.calls = << <<"video", <<"c">>, Null>> >>

\* C5: while the stream is read, streamingText of the assistant message is the
\* concatenation of the chunks received so far, in arrival order, and every
\* new value has the previous one as a prefix.
C5_StreamingTextIsConcatenation ==
  /\ [](pc = "c_stream" => LastMessage.streamingText = Concat(turn.chunks))
  /\ [][ (pc = "c_stream" /\ pc' = "c_stream") =>
           StartsWith(LastMessage'.streamingText, LastMessage.streamingText)
       ]_vars

C5_Witness ==
  /\ pc = "c_stream"
  /\ turn.chunks = << <<"a">>, <<"b">> >>
  /\ LastMessage.streamingText = <<"a", "b">>

\* C6: when the stream is exhausted without an error the assistant message has
\* the whole accumulated text as text, no streamingText, isLoading false and
\* isError not set.
C6_StreamExhausted ==
  (pc = "h_await" /\ InTurn("chat") /\ chat # Null /\ turn.caught = NoThrow) =>
    /\ LastMessage.sender = "ai"
    /\ LastMessage.text = Concat(turn.chunks)
    /\ LastMessage.streamingText = Undefined
    /\ ~LastMessage.isLoading
    /\ ~LastMessage.isError

C6_Witness ==
  /\ pc = "h_await"
  /\ InTurn("chat")
  /\ turn.caught = NoThrow
  /\ turn.chunks = << <<"a">>, <<"b">> >>
  /\ LastMessage.text = <<"a", "b">>

\* C7: when the stream throws, at its opening or after any number of chunks,
\* the assistant message ends with isError true, isLoading false, the error
\* description as text and no streamingText left (absent or empty).
C7_StreamFailureClearsStreamingText ==
  (pc = "h_await" /\ InTurn("chat") /\ turn.caught # NoThrow) =>
    /\ LastMessage.isError
    /\ ~LastMessage.isLoading
    /\ LastMessage.text = ChatErrorText(turn.caught)
    /\ LastMessage.streamingText \in {Undefined, <<>>}

\* C8: an accepted chat submission made without a chat session ends with a
\* failed assistant message appended to the conversation.
C8_NoSessionFailureIsAMessage ==
  (pc = "h_await" /\ InTurn("chat") /\ chat = Null) =>
    /\ LastMessage.sender = "ai"
    /\ LastMessage.isError
    /\ ~LastMessage.isLoading
    /\ LastMessage.text # <<>>

\* the job was seen done, without an error, with a non-empty uri
JobSucceeded ==
  operation.done /\ operation.error = "undefined" /\ operation.uri \notin {NoUri, ""}

\* C9: in a video turn videoUrl of the assistant message is set if and only
\* if the job was observed done with no error and with a media reference.
C9_VideoUrlIffJobSucceeded ==
  InTurn("video") => (LastMessage.videoUrl # Undefined <=> JobSucceeded)

C9_Witness ==
  /\ pc = "h_await"
  /\ InTurn("video")
  /\ LastMessage.videoUrl = <<"https://v", "&key=">>
  /\ turn.polls = 1

IsVideoErrorText(t) ==
  t = ApiKeyErrorText \/ (Len(t) = 2 /\ t[1] = "Error: ")

\* C10: a video turn that ends without a video ends with isError true,
\* isLoading false, an error text and no videoUrl; a job seen done with no
\* error and no media reference ends with the "valid URL" error text.
C10_VideoFailureIsTerminal ==
  (pc = "h_await" /\ InTurn("video")) =>
    /\ ~LastMessage.isLoading
    /\ ~JobSucceeded =>
         /\ LastMessage.isError
         /\ IsVideoErrorText(LastMessage.text)
         /\ LastMessage.videoUrl = Undefined
    /\ (operation.done /\ operation.error = "undefined" /\ ~JobSucceeded) =>
         LastMessage.text = <<"Error: ", NoUrlMessage>>

C10_Witness ==
  /\ pc = "h_await"
  /\ InTurn("video")
  /\ operation.done
  /\ operation.uri = NoUri
  /\ LastMessage.isError
  /\ LastMessage.text = <<"Error: ", NoUrlMessage>>

Count(seq, e) == Cardinality({i \in DOMAIN seq : seq[i] = e})

\* C11: in a video job no poll (getVideosOperation) is issued before the
\* generation request has returned an operation handle, every poll comes
\* right after exactly one wait that follows a handle reporting not-done,
\* and no poll is issued once a handle with done = true has been observed.
C11_PollingOrder ==
  /\ \A i \in DOMAIN turn.events :
       turn.events[i] = "getVideosOperation" =>
         /\ i > 3
         /\ turn.events[1] = "generateVideos"
         /\ turn.events[i - 1] = "wait"
         /\ turn.events[i - 2] = "operation"
         /\ \A j \in 1..i : turn.events[j] # "done"
  /\ Count(turn.events, "wait") = Count(turn.events, "getVideosOperation")
  /\ pc = "v_poll" => ~operation.done

\* a job polled twice: not done, not done, done
C11_Witness ==
  /\ pc = "h_await"
  /\ turn.events = << "generateVideos", "operation", "wait",
                      "getVideosOperation", "operation", "wait",
                      "getVideosOperation", "done" >>

\* the texts the assistant message of a video turn has had while pending
PendingTexts ==
  IF pc = "h_await" THEN SubSeq(turn.texts, 1, Len(turn.texts) - 1)
  ELSE turn.texts

DistinctPendingTexts == {PendingTexts[i] : i \in DOMAIN PendingTexts}

C13_AcceptanceEffects ==
  [][ turn'.n = turn.n + 1 =>
        LET k == Len(messages) + 1
        IN /\ Len(messages') \in {k, k + 1}
           /\ messages'[k].sender = "user"
           /\ IsTrimOf(messages'[k].text, input)
           /\ messages'[k].imagePreview = imagePreview
           /\ \A i \in (k + 1)..Len(messages') : messages'[i].sender = "ai"
           /\ input' = <<>>
           /\ imageFile' = Null
           /\ imagePreview' = Null
           /\ isLoading'
    ]_vars

\* "/Video " was accepted with the image f1 staged
C13_Witness ==
  /\ pc = "c_readFile"
  /\ isLoading
  /\ input = <<>>
  /\ imageFile = Null
  /\ imagePreview = Null
  /\ messages[Len(messages) - 1].sender = "user"
  /\ messages[Len(messages) - 1].text = <<"/", "V", "i", "d", "e", "o">>
  /\ messages[Len(messages) - 1].imagePreview = ObjectURL("f1")

\* C14: while a submission is in flight (isLoading) no image is staged,
\* neither as file nor as preview; and what is staged is at most one file,
\* together with the preview made from it.
C14_NothingStagedWhileBusy ==
  /\ isLoading => (imageFile = Null /\ imagePreview = Null)
  /\ imageFile \in Files \cup {Null}
  /\ imagePreview = IF imageFile = Null THEN Null ELSE ObjectURL(imageFile)

\* the image that was staged went with the submission now in flight
C14_Witness ==
  /\ isLoading
  /\ pc = "c_stream"
  /\ turn.calls[1][3] = "f1"
  /\ imageFile = Null
  /\ imagePreview = Null

Resulted == {s \in DOMAIN sessions : sessions[s] = "resulted"}

\* C15: the result event of a session appends its transcript to the draft,
\* after a single space when the draft was not empty and as the whole draft
\* when it was, and after the result the recording state returns to idle.
C15_ResultJoinsDraftThenIdle ==
  /\ [][ (\E s \in DOMAIN sessions :
             sessions[s] = "active" /\ sessions'[s] = "resulted") =>
           \E tr \in Transcripts :
             input' = IF input = <<>> THEN tr ELSE input \o <<" ">> \o tr
       ]_vars
  /\ (Resulted # {}) ~> ~isRecording

\* a dictated word joined the typed draft and the session has ended
C15_Witness ==
  /\ sessions = << "ended" >>
  /\ ~isRecording
  /\ input = <<"/", "V", "i", "d", "e", "o", " ", " ", "c">>

\* C16: the messages of the conversation have pairwise distinct ids,
\* whatever the clock returns when the submissions are made.
C16_DistinctIds ==
  \A i, j \in DOMAIN messages : i # j => messages[i].id # messages[j].id

\* messages was extended at its end, the messages it had are as they were
Appended ==
  /\ Len(messages') > Len(messages)
  /\ SubSeq(messages', 1, Len(messages)) = messages

\* exactly one message changed, in place: the assistant message of the turn
\* in progress, which is the last one
UpdatedAssistantOnly ==
  /\ Len(messages') = Len(messages)
  /\ \A i \in 1..(Len(messages) - 1) : messages'[i] = messages[i]
  /\ LastMessage' # LastMessage
  /\ LastMessage'.id = LastMessage.id
  /\ LastMessage.id = aiMessageId
  /\ LastMessage.sender = "ai"
  /\ pc # "idle"

\* C17: every change of the conversation is an append at its end or an update
\* in place of exactly one message, the assistant message of the turn in
\* progress: no message is removed or moved, and no user message or message
\* of an earlier turn is changed.
C17_AppendOrUpdateOne ==
  [][ messages' # messages => (Appended \/ UpdatedAssistantOnly) ]_vars

\* only streamingText of a pending message changed, and it grew
StreamingGrew(old, new) ==
  /\ old.isLoading
  /\ old.streamingText # Undefined
  /\ new = [old EXCEPT !.streamingText = new.streamingText]
  /\ new.streamingText # Undefined
  /\ StartsWith(new.streamingText, old.streamingText)

\* the one mutation that ends a pending message: text, videoUrl, isError
\* (and streamingText) are set and isLoading is cleared
TerminalMutation(old, new) ==
  /\ old.isLoading
  /\ ~new.isLoading
  /\ new.id = old.id
  /\ new.sender = old.sender
  /\ new.imagePreview = old.imagePreview

\* C18: a message, once created, changes only by its streamingText growing
\* or by the single terminal mutation that clears isLoading; a message whose
\* isLoading is cleared is never changed again and never pending again.
C18_MessageMutationDiscipline ==
  [][ \A i \in DOMAIN messages :
        /\ i \in DOMAIN messages'
        /\ \/ messages'[i] = messages[i]
           \/ StreamingGrew(messages[i], messages'[i])
           \/ TerminalMutation(messages[i], messages'[i])
    ]_vars

\* the sessions whose start was acknowledged and that have had no result,
\* error or end since
ActiveSessions == {s \in DOMAIN sessions : sessions[s] = "active"}

\* C19: at most one speech-recognition session is active at any time, for
\* any sequence of toggles and session events, a second toggle before the
\* first session's start acknowledgment included.
C19_AtMostOneActiveSession == Cardinality(ActiveSessions) <= 1

\* C20: the recording state and the busy flag are never true together.
C20_NoRecordingWhileBusy == ~(isRecording /\ isLoading)

\* C21: whenever the busy flag is false no message is pending: the step that
\* clears the busy flag leaves no message with isLoading, and the step that
\* accepts a submission starts with none.
C21_IdleMeansNothingPending ==
  /\ [](~isLoading => Pending = {})
  /\ [][ (isLoading /\ ~isLoading') => Pending' = {} ]_vars
  /\ [][ turn'.n = turn.n + 1 => (~isLoading /\ Pending = {}) ]_vars

\* the busy flag was cleared after a chat turn that failed in mid-stream
C21_Witness ==
  /\ ~isLoading
  /\ pc = "idle"
  /\ turn.n = 1
  /\ LastMessage.sender = "ai"
  /\ LastMessage.isError
  /\ LastMessage.streamingText = <<"a">>
  /\ ~LastMessage.isLoading

====
